---- MODULE Spec2Model ----
(***************************************************************************)
(* Model of the dependency-specification and release-resolution code of    *)
(* furrctorio: furrctorio_core/src/model/fmod.rs (FModPreffix,             *)
(* FModDependecies, VersionEncapsulate, FModRelease, FMod),                *)
(* furrctorio_yaml/src/model/mod_entry.rs (ConfigModEntry),                *)
(* furrctorio_core/src/model/context.rs (get_mod_info, get_mod_info_full)  *)
(* and furrctorio_core/src/model/modlist.rs (ModList).                     *)
(*                                                                         *)
(* A Rust String is a sequence of one-character strings.  The semver       *)
(* crate's Version and VersionReq are modelled on the fragment made of     *)
(* numeric comparators (an optional operator and one to three numeric      *)
(* components) and the lone wildcard "*".                                  *)
(***************************************************************************)
EXTENDS Integers, Sequences, FiniteSets, TLC

VARIABLES
  line,     \* the dependency line handed to FModDependecies::from_str
  ntok,     \* number of pieces of the line read so far
  parsed,   \* result of FModDependecies::from_str
  dep,      \* the FModDependecies handed to the serializer
  wire,     \* the string the serializer wrote
  pstr,     \* the string handed to FModPreffix::from_str
  pres,     \* result of FModPreffix::from_str
  shown,    \* the FModPreffix whose Display produced pstr
  version,  \* FModRelease.version of the release match_version is called on
  req,      \* the VersionReq handed to match_version
  matched,  \* outcome of match_version
  vsrc,     \* the wire string the release version was deserialized from
  vout,     \* the string the serializer wrote for the release version
  svc,      \* the mod as the mod portal holds it during one resolution
  entry,    \* ConfigModEntry.version of the entry being resolved
  pc,       \* where find_last_release stands
  result,   \* outcome of find_last_release
  data,     \* the bytes downloaded for a release
  sha1,     \* FModRelease.sha1 of that release
  valid,    \* outcome of FModRelease::validate
  mods,     \* ModList.mods
  full,     \* TRUE for get_mods_info_full, FALSE for get_mods_info
  idx,      \* number of entries whose request has completed
  net,      \* what the network did with the latest request
  last,     \* outcome of the latest get_mod_info / get_mod_info_full
  infos,    \* the mod informations collected so far
  lres,     \* outcome of get_mods_info / get_mods_info_full
  fmod,     \* the FMod that short is called on
  shortened \* outcome of FMod::short

depVars == <<line, ntok, parsed, dep, wire>>

pfxVars == <<pstr, pres, shown>>

matchVars == <<version, req, matched, vsrc, vout>>

selVars == <<svc, entry, pc, result>>

valVars == <<data, sha1, valid>>

listVars == <<mods, full, idx, net, last, infos, lres>>

shortVars == <<fmod, shortened>>

extVars == <<valVars, listVars, shortVars>>

vars == <<depVars, pfxVars, matchVars, selVars, extVars>>

----------------------------------------------------------------------------
(* Bounds of the model.                                                    *)

\* Largest number of space-separated pieces a dependency line is built from.
MaxTokens == 5

\* Number of leading pieces of a line at which every marker is tried.
MaxMarkerPos == 2

\* Longest marker string handed to FModPreffix::from_str.
MaxPreffixLen == 3

\* Largest number of releases of a mod.
MaxReleases == 3

\* Largest version component of a generated requirement or version.
MaxPart == 1

\* Largest number of bytes of a downloaded file.
MaxData == 2

\* Largest patch number of the 0.0.y and 0.1.y versions that are matched.
MaxPatch == 7

\* Largest number of entries of a mod list.
MaxMods == 3

----------------------------------------------------------------------------
(* Strings.                                                                *)

\* char::is_whitespace on the characters of the model.
IsWhitespace(c) == c \in {" ", "\t"}

DigitChars == <<"0", "1", "2", "3", "4", "5", "6", "7", "8", "9">>

IsDigit(c) == \E i \in 1..10 : DigitChars[i] = c

DigitVal(c) == (CHOOSE i \in 1..10 : DigitChars[i] = c) - 1

\* Display of an unsigned integer: its decimal digits.
RECURSIVE Dec(_)
Dec(n) == IF n < 10 THEN <<DigitChars[n + 1]>>
          ELSE Dec(n \div 10) \o <<DigitChars[(n % 10) + 1]>>

\* The value of a string of decimal digits.
RECURSIVE Num(_)
Num(s) == IF s = <<>> THEN 0
          ELSE 10 * Num(SubSeq(s, 1, Len(s) - 1)) + DigitVal(s[Len(s)])

\* str::starts_with
StartsWith(s, p) == Len(s) >= Len(p) /\ SubSeq(s, 1, Len(p)) = p

Drop(s, n) == SubSeq(s, n + 1, Len(s))

\* str::replace: every non-overlapping occurrence of from, left to right.
RECURSIVE Replace(_, _, _)
Replace(s, from, to) ==
  IF s = <<>> THEN <<>>
  ELSE IF StartsWith(s, from) THEN to \o Replace(Drop(s, Len(from)), from, to)
  ELSE <<s[1]>> \o Replace(Drop(s, 1), from, to)

\* str::split_whitespace collected into a Vec: the maximal runs of
\* non-whitespace characters, in order.
RECURSIVE SplitFrom(_, _, _)
SplitFrom(s, cur, acc) ==
  IF s = <<>> THEN (IF cur = <<>> THEN acc ELSE Append(acc, cur))
  ELSE IF IsWhitespace(s[1])
       THEN SplitFrom(Drop(s, 1), <<>>, IF cur = <<>> THEN acc ELSE Append(acc, cur))
       ELSE SplitFrom(Drop(s, 1), Append(cur, s[1]), acc)

split_whitespace(s) == SplitFrom(s, <<>>, <<>>)

\* str::split on a character: the pieces between the separators.
RECURSIVE SplitOn(_, _, _, _)
SplitOn(s, sep, cur, acc) ==
  IF s = <<>> THEN Append(acc, cur)
  ELSE IF s[1] = sep THEN SplitOn(Drop(s, 1), sep, <<>>, Append(acc, cur))
  ELSE SplitOn(Drop(s, 1), sep, Append(cur, s[1]), acc)

----------------------------------------------------------------------------
(* Results.                                                                *)

Ok(v) == [kind |-> "Ok", val |-> v]

Err(e) == [kind |-> "Err", err |-> e]

\* A panic unwinding out of the call.
Panic == [kind |-> "Panic"]

\* No call has returned yet.
NotCalled == [kind |-> "NotCalled"]

None == [some |-> FALSE]

Some(v) == [some |-> TRUE, val |-> v]

----------------------------------------------------------------------------
(* semver::Version and semver::VersionReq on the modelled fragment.        *)

\* Absent minor or patch component of a comparator.
NoPart == -1

\* A numeric identifier: decimal digits without a leading zero.
IsNumeric(s) ==
  /\ s # <<>>
  /\ \A i \in 1..Len(s) : IsDigit(s[i])
  /\ (Len(s) > 1 => s[1] # "0")

\* Version::parse: exactly major.minor.patch, each a numeric identifier.
VersionParse(s) ==
  LET parts == SplitOn(s, ".", <<>>, <<>>) IN
  IF Len(parts) = 3 /\ \A i \in 1..3 : IsNumeric(parts[i])
  THEN Ok([major |-> Num(parts[1]), minor |-> Num(parts[2]), patch |-> Num(parts[3])])
  ELSE Err("semver")

\* Display for Version.
VersionDisplay(v) == Dec(v.major) \o <<".">> \o Dec(v.minor) \o <<".">> \o Dec(v.patch)

\* VersionReq::STAR, the requirement with no comparator.
STAR == [op |-> "*", major |-> NoPart, minor |-> NoPart, patch |-> NoPart]

RECURSIVE TrimStart(_)
TrimStart(s) == IF s # <<>> /\ s[1] = " " THEN TrimStart(Drop(s, 1)) ELSE s

IsWildcard(c) == c \in {"*", "x", "X"}

\* The operator a comparator starts with; none is the caret operator.
ReqOp(s) ==
  IF StartsWith(s, <<">", "=">>) THEN <<">=", 2>>
  ELSE IF StartsWith(s, <<"<", "=">>) THEN <<"<=", 2>>
  ELSE IF StartsWith(s, <<"=">>) THEN <<"=", 1>>
  ELSE IF StartsWith(s, <<">">>) THEN <<">", 1>>
  ELSE IF StartsWith(s, <<"<">>) THEN <<"<", 1>>
  ELSE IF StartsWith(s, <<"~">>) THEN <<"~", 1>>
  ELSE IF StartsWith(s, <<"^">>) THEN <<"^", 1>>
  ELSE <<"^", 0>>

\* VersionReq::parse.
ReqParse(s) ==
  LET text == TrimStart(s) IN
  IF text # <<>> /\ IsWildcard(text[1])
  THEN (IF TrimStart(Drop(text, 1)) = <<>> THEN Ok(STAR) ELSE Err("semver"))
  ELSE LET op == ReqOp(text)
           rest == TrimStart(Drop(text, op[2]))
           parts == SplitOn(rest, ".", <<>>, <<>>)
       IN IF Len(parts) \in 1..3 /\ \A i \in 1..Len(parts) : IsNumeric(parts[i])
          THEN Ok([op |-> op[1],
                   major |-> Num(parts[1]),
                   minor |-> IF Len(parts) >= 2 THEN Num(parts[2]) ELSE NoPart,
                   patch |-> IF Len(parts) = 3 THEN Num(parts[3]) ELSE NoPart])
          ELSE Err("semver")

OpChars(op) ==
  CASE op = ">=" -> <<">", "=">>
    [] op = "<=" -> <<"<", "=">>
    [] OTHER -> <<op>>

\* Display for VersionReq: the operator immediately followed by the version.
ReqDisplay(r) ==
  IF r.op = "*" THEN <<"*">>
  ELSE OpChars(r.op) \o Dec(r.major)
       \o (IF r.minor # NoPart THEN <<".">> \o Dec(r.minor) ELSE <<>>)
       \o (IF r.patch # NoPart THEN <<".">> \o Dec(r.patch) ELSE <<>>)

MatchesExact(r, v) ==
  /\ v.major = r.major
  /\ (r.minor # NoPart => v.minor = r.minor)
  /\ (r.patch # NoPart => v.patch = r.patch)

MatchesGreater(r, v) ==
  IF v.major # r.major THEN v.major > r.major
  ELSE IF r.minor = NoPart THEN FALSE
  ELSE IF v.minor # r.minor THEN v.minor > r.minor
  ELSE IF r.patch = NoPart THEN FALSE
  ELSE v.patch > r.patch

MatchesLess(r, v) ==
  IF v.major # r.major THEN v.major < r.major
  ELSE IF r.minor = NoPart THEN FALSE
  ELSE IF v.minor # r.minor THEN v.minor < r.minor
  ELSE IF r.patch = NoPart THEN FALSE
  ELSE v.patch < r.patch

MatchesTilde(r, v) ==
  /\ v.major = r.major
  /\ (r.minor # NoPart => v.minor = r.minor)
  /\ (r.patch # NoPart => v.patch >= r.patch)

MatchesCaret(r, v) ==
  IF v.major # r.major THEN FALSE
  ELSE IF r.minor = NoPart THEN TRUE
  ELSE IF r.patch = NoPart
       THEN (IF r.major > 0 THEN v.minor >= r.minor ELSE v.minor = r.minor)
  ELSE IF r.major > 0
       THEN (IF v.minor # r.minor THEN v.minor > r.minor ELSE v.patch >= r.patch)
  ELSE IF r.minor > 0 THEN v.minor = r.minor /\ v.patch >= r.patch
  ELSE v.minor = r.minor /\ v.patch = r.patch

\* VersionReq::matches on a version without pre-release.
ReqMatches(r, v) ==
  CASE r.op = "*" -> TRUE
    [] r.op = "=" -> MatchesExact(r, v)
    [] r.op = ">" -> MatchesGreater(r, v)
    [] r.op = ">=" -> MatchesExact(r, v) \/ MatchesGreater(r, v)
    [] r.op = "<" -> MatchesLess(r, v)
    [] r.op = "<=" -> MatchesExact(r, v) \/ MatchesLess(r, v)
    [] r.op = "~" -> MatchesTilde(r, v)
    [] r.op = "^" -> MatchesCaret(r, v)

----------------------------------------------------------------------------
(* FModPreffix.                                                            *)

Preffixes == {"Required", "Incompatible", "Optional", "HiddenOptional", "NonChanging"}

\* PreffixFromStr with an unknown marker falling back to the default.
PreffixFromStrLenient(s) ==
  CASE s = <<"!">> -> Ok("Incompatible")
    [] s = <<"?">> -> Ok("Optional")
    [] s = <<"(", "?", ")">> -> Ok("HiddenOptional")
    [] s = <<"~">> -> Ok("NonChanging")
    [] OTHER -> Ok("Required")

\* impl FromStr for FModPreffix
PreffixFromStr(s) ==
  CASE s = <<"!">> -> Ok("Incompatible")
    [] s = <<"?">> -> Ok("Optional")
    [] s = <<"(", "?", ")">> -> Ok("HiddenOptional")
    [] s = <<"~">> -> Ok("NonChanging")
    [] s = <<>> -> Ok("Required")
    [] OTHER -> Err("InvalidPreffix")

\* impl Display for FModPreffix
PreffixDisplay(p) ==
  CASE p = "Incompatible" -> <<"!">>
    [] p = "Optional" -> <<"?">>
    [] p = "HiddenOptional" -> <<"(", "?", ")">>
    [] p = "NonChanging" -> <<"~">>
    [] p = "Required" -> <<>>

----------------------------------------------------------------------------
(* FModDependecies.                                                        *)

Dependency(n, v, p) == [name |-> n, required_version |-> v, preffix |-> p]

\* impl Serialize for FModDependecies: the string handed to the serializer.
Serialize(d) ==
  IF d.required_version.some
  THEN (IF d.preffix = "Required"
        THEN d.name \o <<" ">> \o ReqDisplay(d.required_version.val)
        ELSE PreffixDisplay(d.preffix) \o <<" ">> \o d.name \o <<" ">>
             \o ReqDisplay(d.required_version.val))
  ELSE (IF d.preffix = "Required"
        THEN d.name
        ELSE PreffixDisplay(d.preffix) \o <<" ">> \o d.name)

\* The arm [prefix, name] of from_str.
from_two(toks) ==
  LET p == PreffixFromStr(toks[1]) IN
  IF p.kind = "Err" THEN p
  ELSE Ok(Dependency(toks[2], None, p.val))

\* from_four with the prefix resolved before the range is checked.
from_four_prefix_first(toks) ==
  LET vers == ReqParse(toks[3] \o toks[4])
      p == PreffixFromStr(toks[1])
  IN IF p.kind = "Err" THEN p
     ELSE IF vers.kind = "Err" THEN Err("ParcingError")
     ELSE Ok(Dependency(toks[2], Some(vers.val), p.val))

\* The arm [prefix, name, version1, version2] of from_str.
from_four(toks) ==
  LET vers == ReqParse(toks[3] \o toks[4])
      p == PreffixFromStr(toks[1])
  IN IF vers.kind = "Err" THEN Err("ParcingError")
     ELSE IF p.kind = "Err" THEN p
     ELSE Ok(Dependency(toks[2], Some(vers.val), p.val))

\* from_three with the operator token left out of the range.
from_three_no_operator(toks) ==
  LET vers == ReqParse(toks[3]) IN
  IF vers.kind = "Err" THEN Err("ParcingError")
  ELSE Ok(Dependency(toks[1], Some(vers.val), "Required"))

\* The arm [name, version1, version2] of from_str.
from_three(toks) ==
  LET vers == ReqParse(toks[2] \o toks[3]) IN
  IF vers.kind = "Err" THEN Err("ParcingError")
  ELSE Ok(Dependency(toks[1], Some(vers.val), "Required"))

\* impl FromStr for FModDependecies
from_str(s) ==
  LET toks == split_whitespace(s) IN
  CASE Len(toks) = 2 -> from_two(toks)
    [] Len(toks) = 4 -> from_four(toks)
    [] Len(toks) = 3 -> from_three(toks)
    [] OTHER -> Err("ParcingError")

----------------------------------------------------------------------------
(* VersionEncapsulate and FModRelease::match_version.                      *)

\* VersionEncapsulate::Version(v)
EVersion(v) == [tag |-> "Version", v |-> v]

\* VersionEncapsulate::String(s)
EString(s) == [tag |-> "String", s |-> s]

ZeroZero == <<"0", ".", "0", ".">>

ZeroOne == <<"0", ".", "1", ".">>

\* Deserialize that applies the "0.0." rewrite to the text it keeps.
VersionDeserializeRewritten(s) ==
  LET v == VersionParse(s) IN
  IF v.kind = "Ok" THEN EVersion(v.val) ELSE EString(Replace(s, ZeroZero, ZeroOne))

\* impl Deserialize for VersionEncapsulate
VersionDeserialize(s) ==
  LET v == VersionParse(s) IN
  IF v.kind = "Ok" THEN EVersion(v.val) ELSE EString(s)

\* impl Serialize for VersionEncapsulate
VersionSerialize(e) == IF e.tag = "Version" THEN VersionDisplay(e.v) ELSE e.s

\* A value returned by a function whose type is not a Result.
Return(v) == [kind |-> "Return", val |-> v]

\* match_version with the "0.0." rewrite applied to every version.
match_version_rewrite_all(e, r) ==
  LET s == IF e.tag = "Version" THEN VersionDisplay(e.v) ELSE e.s IN
  IF e.tag = "Version" \/ StartsWith(s, ZeroZero)
  THEN LET rq == ReqParse(Replace(ReqDisplay(r), ZeroZero, ZeroOne))
           v == VersionParse(Replace(s, ZeroZero, ZeroOne))
       IN IF rq.kind = "Err" \/ v.kind = "Err" THEN Panic
          ELSE Return(ReqMatches(rq.val, v.val))
  ELSE Panic

\* FModRelease::match_version(&self, version_req) with self.version = e.
match_version(e, r) ==
  IF e.tag = "Version" THEN Return(ReqMatches(r, e.v))
  ELSE IF StartsWith(e.s, ZeroZero)
       THEN LET rq == ReqParse(Replace(ReqDisplay(r), ZeroZero, ZeroOne))
                v == VersionParse(Replace(e.s, ZeroZero, ZeroOne))
            IN IF rq.kind = "Err" \/ v.kind = "Err" THEN Panic
               ELSE Return(ReqMatches(rq.val, v.val))
  ELSE Panic

----------------------------------------------------------------------------
(* FModRelease ordering and ConfigModEntry::find_last_release.             *)

\* FModRelease, with the fields the selection reads.
Release(s, at, f) ==
  [version |-> VersionDeserialize(s), released_at |-> at, file_name |-> f]

\* Ordering of two semantic versions: -1, 0 or 1.
VersionCmp(a, b) ==
  IF a.major # b.major THEN (IF a.major < b.major THEN -1 ELSE 1)
  ELSE IF a.minor # b.minor THEN (IF a.minor < b.minor THEN -1 ELSE 1)
  ELSE IF a.patch # b.patch THEN (IF a.patch < b.patch THEN -1 ELSE 1)
  ELSE 0

\* Ord for FModRelease: by version, then by release time.
ReleaseCmp(a, b) ==
  LET c == VersionCmp(a.version.v, b.version.v) IN
  IF c # 0 THEN c
  ELSE IF a.released_at # b.released_at
       THEN (IF a.released_at < b.released_at THEN -1 ELSE 1)
  ELSE 0

\* releases.sort(); releases.last(): the sort is stable, so among the
\* greatest releases the one latest in the list comes last.
sort_last(rs) ==
  LET top == {i \in 1..Len(rs) : \A j \in 1..Len(rs) : ReleaseCmp(rs[j], rs[i]) <= 0}
  IN rs[CHOOSE i \in top : \A j \in top : j <= i]

\* The releases r.match_version(&range) keeps, in order.
RECURSIVE FilterMatching(_, _)
FilterMatching(rs, range) ==
  IF rs = <<>> THEN <<>>
  ELSE IF match_version(rs[1].version, range).val
       THEN <<rs[1]>> \o FilterMatching(Drop(rs, 1), range)
       ELSE FilterMatching(Drop(rs, 1), range)

\* The part of find_last_release that follows the second fetch.
select_release(releases, range) ==
  IF releases = <<>> THEN Ok(None)
  ELSE IF \E i \in 1..Len(releases) : match_version(releases[i].version, range) = Panic
       THEN Panic
  ELSE LET kept == FilterMatching(releases, range) IN
       IF kept = <<>> THEN Panic
       ELSE Ok(Some(sort_last(kept)))

----------------------------------------------------------------------------
(* Inputs of the dependency parser and serializer.                         *)

Names == {<<"b", "a", "s", "e">>, <<"f", "l", "i", "b">>}

\* The pieces a dependency line is joined from with single spaces; the
\* empty piece gives leading, trailing and repeated spaces.
CorePieces ==
  {<<>>, <<"b", "a", "s", "e">>, <<"!">>, <<">", "=">>,
   <<"0", ".", "1", "8", ".", "2", "7">>}

\* The other markers; "~" is a comparison operator as well.
MarkerPieces == {<<"?">>, <<"(", "?", ")">>, <<"~">>}

\* The pieces that may come at position n + 1 of a line: the markers other
\* than "!" are tried among the first MaxMarkerPos pieces.
Pieces(n) == IF n < MaxMarkerPos THEN CorePieces \cup MarkerPieces ELSE CorePieces

Ops == {"=", ">", ">=", "<", "<=", "~", "^"}

Parts == 0..MaxPart

\* The requirements of the fragment: a comparator has a patch only with a minor.
Reqs ==
  {STAR} \cup
  {r \in [op : Ops, major : Parts, minor : Parts \cup {NoPart}, patch : Parts \cup {NoPart}] :
     r.minor = NoPart => r.patch = NoPart}

Dependencies ==
  {Dependency(n, v, p) : n \in Names, v \in {None} \cup {Some(r) : r \in Reqs}, p \in Preffixes}

----------------------------------------------------------------------------
(* The dependency parser and serializer as a state machine: a line is      *)
(* read piece by piece or produced by the serializer, then parsed.         *)

InitDepVars ==
  /\ line = <<>>
  /\ ntok = 0
  /\ parsed = NotCalled
  /\ dep = None
  /\ wire = None

InitPfxVars ==
  /\ pstr = <<>>
  /\ pres = NotCalled
  /\ shown = None

InitMatchVars ==
  /\ version = None
  /\ req = None
  /\ matched = NotCalled
  /\ vsrc = None
  /\ vout = None

\* A mod without releases.
NoReleases == [releases |-> <<>>, latest_release |-> None]

InitSelVars ==
  /\ svc = NoReleases
  /\ entry = STAR
  /\ pc = "start"
  /\ result = NotCalled

InitValVars ==
  /\ data = None
  /\ sha1 = <<>>
  /\ valid = NotCalled

InitListVars ==
  /\ mods = <<>>
  /\ full = FALSE
  /\ idx = 0
  /\ net = "idle"
  /\ last = NotCalled
  /\ infos = <<>>
  /\ lres = NotCalled

InitShortVars ==
  /\ fmod = None
  /\ shortened = NotCalled

InitExtVars == InitValVars /\ InitListVars /\ InitShortVars

InitDep == InitDepVars /\ InitPfxVars /\ InitMatchVars /\ InitSelVars /\ InitExtVars

\* The next piece of the input string arrives.
ReadPiece(t) ==
  /\ dep = None
  /\ ntok < MaxTokens
  /\ line' = IF ntok = 0 THEN t ELSE line \o <<" ">> \o t
  /\ ntok' = ntok + 1
  /\ parsed' = NotCalled
  /\ UNCHANGED <<dep, wire>>
  /\ UNCHANGED <<pfxVars, matchVars, selVars, extVars>>

\* FModDependecies::serialize(d): the string written to the document.
DepSerialize(d) ==
  /\ dep = None
  /\ ntok = 0
  /\ dep' = Some(d)
  /\ wire' = Some(Serialize(d))
  /\ UNCHANGED <<line, ntok, parsed>>
  /\ UNCHANGED <<pfxVars, matchVars, selVars, extVars>>

\* FModDependecies::deserialize reads the string of the document.
DepDeserialize ==
  /\ wire # None
  /\ parsed = NotCalled
  /\ line' = wire.val
  /\ parsed' = from_str(wire.val)
  /\ UNCHANGED <<ntok, dep, wire>>
  /\ UNCHANGED <<pfxVars, matchVars, selVars, extVars>>

\* FModDependecies::from_str on the line read.
DepFromStr ==
  /\ dep = None
  /\ parsed = NotCalled
  /\ parsed' = from_str(line)
  /\ UNCHANGED <<line, ntok, dep, wire>>
  /\ UNCHANGED <<pfxVars, matchVars, selVars, extVars>>

NextDep ==
  \/ \E t \in Pieces(ntok) : ReadPiece(t)
  \/ \E d \in Dependencies : DepSerialize(d)
  \/ DepDeserialize
  \/ DepFromStr

SpecDep == InitDep /\ [][NextDep]_vars

----------------------------------------------------------------------------
(* FModPreffix::from_str and Display as a state machine over every string  *)
(* of at most MaxPreffixLen marker characters.                             *)

PreffixChars == {"!", "?", "(", ")", "~", "a"}

InitPreffix == InitDepVars /\ InitPfxVars /\ InitMatchVars /\ InitSelVars /\ InitExtVars

\* The next character of the marker string arrives.
ReadChar(c) ==
  /\ shown = None
  /\ Len(pstr) < MaxPreffixLen
  /\ pstr' = Append(pstr, c)
  /\ pres' = NotCalled
  /\ UNCHANGED shown
  /\ UNCHANGED <<depVars, matchVars, selVars, extVars>>

\* FModPreffix::to_string(p).
PreffixToString(p) ==
  /\ shown = None
  /\ pstr = <<>>
  /\ pres = NotCalled
  /\ shown' = Some(p)
  /\ pstr' = PreffixDisplay(p)
  /\ UNCHANGED pres
  /\ UNCHANGED <<depVars, matchVars, selVars, extVars>>

\* FModPreffix::from_str on the string.
PreffixParse ==
  /\ pres = NotCalled
  /\ pres' = PreffixFromStr(pstr)
  /\ UNCHANGED <<pstr, shown>>
  /\ UNCHANGED <<depVars, matchVars, selVars, extVars>>

NextPreffix ==
  \/ \E c \in PreffixChars : ReadChar(c)
  \/ \E p \in Preffixes : PreffixToString(p)
  \/ PreffixParse

SpecPreffix == InitPreffix /\ [][NextPreffix]_vars

----------------------------------------------------------------------------
(* FModRelease::match_version as a state machine: a release version is     *)
(* deserialized from its wire string, or built by the caller, and matched  *)
(* against a requirement.                                                  *)

Versions == [major : Parts, minor : Parts, patch : Parts]

\* Wire strings that are not semantic versions.
RawStrings ==
  {<<"0", ".", "0", ".", "0", "5">>, <<"0", ".", "0", ".", "x">>,
   <<"0", ".", "0", ".", "1", ".", "0">>, <<"1", ".", "0">>,
   <<"0", ".", "1", ".", "0", "1">>, <<"1", "0", ".", "0", ".", "x">>}

\* The versions 0.0.y and 0.1.y, and two versions around 1.0.0.
PatchVersions ==
  {[major |-> 0, minor |-> m, patch |-> y] : m \in {0, 1}, y \in 0..MaxPatch}
    \cup {[major |-> 0, minor |-> 9, patch |-> 9], [major |-> 1, minor |-> 0, patch |-> 0]}

VersionStrings == {VersionDisplay(v) : v \in Versions \cup PatchVersions} \cup RawStrings

\* The requirement >=a.b.c
AtLeast(a, b, c) == [op |-> ">=", major |-> a, minor |-> b, patch |-> c]

\* The requirements >=0.0.x and >=0.1.x, and >=1.0.0.
PatchReqs ==
  {AtLeast(0, m, x) : m \in {0, 1}, x \in 0..MaxPatch} \cup {AtLeast(1, 0, 0)}

MatchReqs == Reqs \cup PatchReqs

InitMatch == InitDepVars /\ InitPfxVars /\ InitMatchVars /\ InitSelVars /\ InitExtVars

\* The release is deserialized: its version comes from the wire string s.
ReleaseDeserialize(s) ==
  /\ version = None
  /\ version' = Some(VersionDeserialize(s))
  /\ vsrc' = Some(s)
  /\ UNCHANGED <<req, matched, vout>>
  /\ UNCHANGED <<depVars, pfxVars, selVars, extVars>>

\* The caller builds the release with VersionEncapsulate::String(s).
ReleaseWithString(s) ==
  /\ version = None
  /\ version' = Some(EString(s))
  /\ UNCHANGED <<req, matched, vsrc, vout>>
  /\ UNCHANGED <<depVars, pfxVars, selVars, extVars>>

\* release.match_version(&r)
MatchVersion(r) ==
  /\ version # None
  /\ matched = NotCalled
  /\ req' = Some(r)
  /\ matched' = match_version(version.val, r)
  /\ UNCHANGED <<version, vsrc, vout>>
  /\ UNCHANGED <<depVars, pfxVars, selVars, extVars>>

\* The release is serialized: its version is written as a string.
ReleaseSerialize ==
  /\ version # None
  /\ vout = None
  /\ vout' = Some(VersionSerialize(version.val))
  /\ UNCHANGED <<version, req, matched, vsrc>>
  /\ UNCHANGED <<depVars, pfxVars, selVars, extVars>>

NextMatch ==
  \/ \E s \in VersionStrings : ReleaseDeserialize(s)
  \/ \E s \in VersionStrings : ReleaseWithString(s)
  \/ \E r \in MatchReqs : MatchVersion(r)
  \/ ReleaseSerialize

SpecMatch == InitMatch /\ [][NextMatch]_vars

----------------------------------------------------------------------------
(* ConfigModEntry::find_last_release as a state machine: the two fetches   *)
(* are its suspension points, and the portal's answer does not change      *)
(* during one resolution.                                                  *)

\* The releases the portal may hold, as (version string, release time).
ReleasePool ==
  {Release(<<"1", ".", "0", ".", "0">>, 1, "a.zip"),
   Release(<<"1", ".", "2", ".", "0">>, 1, "a.zip"),
   Release(<<"2", ".", "0", ".", "0">>, 1, "a.zip"),
   Release(<<"2", ".", "0", ".", "0">>, 2, "a.zip"),
   Release(<<"2", ".", "0", ".", "0">>, 2, "b.zip"),
   Release(<<"0", ".", "9">>, 1, "a.zip")}

RECURSIVE SeqsUpTo(_, _)
SeqsUpTo(S, n) ==
  IF n = 0 THEN {<<>>}
  ELSE LET shorter == SeqsUpTo(S, n - 1) IN
       shorter \cup {Append(q, x) : q \in {p \in shorter : Len(p) = n - 1}, x \in S}

Elements(q) == {q[i] : i \in 1..Len(q)}

Mods ==
  {[releases |-> q, latest_release |-> l] :
     q \in SeqsUpTo(ReleasePool, MaxReleases), l \in {None} \cup {Some(r) : r \in ReleasePool}}

Comparator(o, a, b, c) == [op |-> o, major |-> a, minor |-> b, patch |-> c]

\* The ranges of the entries resolved.
Ranges ==
  {STAR, Comparator("<", 2, 0, 0), Comparator(">=", 1, 2, 0), Comparator(">=", 3, 0, 0),
   Comparator("=", 1, 0, 0)}

InitSelect ==
  /\ InitDepVars /\ InitPfxVars /\ InitMatchVars /\ InitExtVars
  /\ svc \in {m \in Mods : m.latest_release.some => m.latest_release.val \in Elements(m.releases)}
  /\ entry \in Ranges
  /\ pc = "start"
  /\ result = NotCalled

\* self.get_mod(ctx).await? fails: the error is returned.
GetModErr ==
  /\ pc = "start"
  /\ pc' = "failed"
  /\ result' = Err("reqwest")
  /\ UNCHANGED <<svc, entry>>
  /\ UNCHANGED <<depVars, pfxVars, matchVars, extVars>>

\* self.get_mod(ctx).await? answers: a latest_release is returned at once.
GetModOk ==
  /\ pc = "start"
  /\ IF svc.latest_release.some
     THEN pc' = "done" /\ result' = Ok(svc.latest_release)
     ELSE pc' = "full" /\ UNCHANGED result
  /\ UNCHANGED <<svc, entry>>
  /\ UNCHANGED <<depVars, pfxVars, matchVars, extVars>>

\* self.get_mod_full(ctx).await?: the request cannot be sent, and
\* get_mod_info_full unwraps the failure.
GetModFullSendErr ==
  /\ pc = "full"
  /\ pc' = "failed"
  /\ result' = Panic
  /\ UNCHANGED <<svc, entry>>
  /\ UNCHANGED <<depVars, pfxVars, matchVars, extVars>>

\* self.get_mod_full(ctx).await?: the answer cannot be decoded.
GetModFullErr ==
  /\ pc = "full"
  /\ pc' = "failed"
  /\ result' = Err("reqwest")
  /\ UNCHANGED <<svc, entry>>
  /\ UNCHANGED <<depVars, pfxVars, matchVars, extVars>>

\* self.get_mod_full(ctx).await? answers, and the release is selected.
GetModFullOk ==
  /\ pc = "full"
  /\ pc' = "done"
  /\ result' = select_release(svc.releases, entry)
  /\ UNCHANGED <<svc, entry>>
  /\ UNCHANGED <<depVars, pfxVars, matchVars, extVars>>

NextSelect ==
  \/ GetModErr
  \/ GetModOk
  \/ GetModFullSendErr
  \/ GetModFullErr
  \/ GetModFullOk

SpecSelect == InitSelect /\ [][NextSelect]_vars

----------------------------------------------------------------------------
(* Properties of the dependency parser and serializer (SpecDep).           *)

\* The marker strings and the variant each names.
MarkerTable ==
  {<<<<>>, "Required">>, <<<<"!">>, "Incompatible">>, <<<<"?">>, "Optional">>,
   <<<<"(", "?", ")">>, "HiddenOptional">>, <<<<"~">>, "NonChanging">>}

Markers == {m[1] : m \in MarkerTable}

VariantOf(s) == (CHOOSE m \in MarkerTable : m[1] = s)[2]

MarkerOf(p) == (CHOOSE m \in MarkerTable : m[2] = p)[1]

Base == <<"b", "a", "s", "e">>

\* The tokens of the line from_str was called on.
Tokens == split_whitespace(line)

ParseReturned == parsed.kind # "NotCalled"

\* C1: parsing the string produced by serializing a valid dependency
\* succeeds and gives back the same name, prefix and required version.
C1_RoundTrip ==
  (dep.some /\ wire.some /\ ParseReturned /\ line = wire.val) => parsed = Ok(dep.val)

\* The operator and version tokens of the line do not form a version range.
BadRange(a, b) == ReqParse(a \o b).kind = "Err"

Malformed ==
  \/ Len(Tokens) \notin {2, 3, 4}
  \/ Len(Tokens) = 3 /\ BadRange(Tokens[2], Tokens[3])
  \/ Len(Tokens) = 4 /\ BadRange(Tokens[3], Tokens[4])

\* C2: a line whose token count is not 2, 3 or 4, or a 3- or 4-token line
\* whose operator and version tokens do not form a version range, is rejected
\* with a parsing error, whatever its prefix token is.
C2_MalformedRejected ==
  (ParseReturned /\ Malformed) => parsed = Err("ParcingError")

\* C2 witness: a 4-token line with an unknown prefix and an invalid range
\* has been rejected.
C2_Witness ==
  /\ ParseReturned
  /\ Len(Tokens) = 4
  /\ Tokens[1] \notin Markers
  /\ BadRange(Tokens[3], Tokens[4])
  /\ parsed = Err("ParcingError")

\* C3: for each of the five markers m and every name n, the line m, a space,
\* n parses to the dependency n with the variant of m and no version.
C3_MarkerLines ==
  \A m \in Markers : \A n \in Names :
    (ParseReturned /\ line = m \o <<" ">> \o n)
      => parsed = Ok(Dependency(n, None, VariantOf(m)))

\* C4: a 3-token line name op version parses to the required dependency
\* name with the range op+version, and a 4-token line marker name op version
\* with a known marker parses to name with that marker's variant and the
\* range op+version; "base >= 0.18.27" gives base, Required, >=0.18.27.
C4_VersionedLines ==
  ParseReturned =>
    /\ (Len(Tokens) = 3 /\ ~BadRange(Tokens[2], Tokens[3]))
         => parsed = Ok(Dependency(Tokens[1],
                                   Some(ReqParse(Tokens[2] \o Tokens[3]).val), "Required"))
    /\ (Len(Tokens) = 4 /\ Tokens[1] \in Markers /\ ~BadRange(Tokens[3], Tokens[4]))
         => parsed = Ok(Dependency(Tokens[2],
                                   Some(ReqParse(Tokens[3] \o Tokens[4]).val),
                                   VariantOf(Tokens[1])))
    /\ Tokens = <<Base, <<">", "=">>, <<"0", ".", "1", "8", ".", "2", "7">>>>
         => parsed = Ok(Dependency(Base, Some([op |-> ">=", major |-> 0, minor |-> 18,
                                               patch |-> 27]), "Required"))

\* C4 witness: "? base >= 0.18.27" has been parsed to the optional
\* dependency base >=0.18.27.
C4_Witness ==
  /\ line = <<"?", " ">> \o Base \o <<" ", ">", "=", " ", "0", ".", "1", "8", ".", "2", "7">>
  /\ parsed = Ok(Dependency(Base, Some([op |-> ">=", major |-> 0, minor |-> 18,
                                        patch |-> 27]), "Optional"))

\* The line format [marker ]name[ operator version] of a dependency.
WireFormat(d) ==
  (IF d.preffix = "Required" THEN <<>> ELSE MarkerOf(d.preffix) \o <<" ">>)
  \o d.name
  \o (IF d.required_version.some
      THEN LET r == d.required_version.val IN
           <<" ">> \o OpChars(r.op) \o <<" ">> \o Drop(ReqDisplay(r), Len(OpChars(r.op)))
      ELSE <<>>)

\* C6: the serializer writes [marker ]name[ operator version], the operator
\* and the version number being two tokens separated by one space.
C6_WireFormat ==
  (dep.some /\ wire.some
   /\ (dep.val.required_version.some => dep.val.required_version.val.op # "*"))
    => wire.val = WireFormat(dep.val)

----------------------------------------------------------------------------
(* Properties of FModPreffix (SpecPreffix).                                *)

\* C5: from_str maps each of the five marker strings to its variant, rejects
\* every other string as an invalid prefix, and from_str(to_string(p)) = p.
C5_MarkerBijection ==
  pres.kind # "NotCalled" =>
    /\ pstr = <<>> => pres = Ok("Required")
    /\ pstr = <<"!">> => pres = Ok("Incompatible")
    /\ pstr = <<"?">> => pres = Ok("Optional")
    /\ pstr = <<"(", "?", ")">> => pres = Ok("HiddenOptional")
    /\ pstr = <<"~">> => pres = Ok("NonChanging")
    /\ pstr \notin {<<>>, <<"!">>, <<"?">>, <<"(", "?", ")">>, <<"~">>}
         => pres = Err("InvalidPreffix")
    /\ shown.some => pres = Ok(shown.val)

\* C5 witness: the marker written for HiddenOptional has been read back.
C5_Witness ==
  /\ shown = Some("HiddenOptional")
  /\ pstr = <<"(", "?", ")">>
  /\ pres = Ok("HiddenOptional")

----------------------------------------------------------------------------
(* Properties of FModRelease::match_version (SpecMatch).                   *)

MatchReturned == matched.kind # "NotCalled"

IsRaw == version.some /\ version.val.tag = "String"

\* C7: on a raw version string that does not start with "0.0." the call
\* fails with a version error returned to the caller; it does not abort.
C7_RawFailsWithError ==
  (MatchReturned /\ IsRaw /\ ~StartsWith(version.val.s, ZeroZero))
    => matched = Err("VersionError")

\* The string with only a leading "0.0." rewritten to "0.1.".
RewriteLeading(s) == IF StartsWith(s, ZeroZero) THEN ZeroOne \o Drop(s, Len(ZeroZero)) ELSE s

\* The range with only the leading "0.0." of its version rewritten.
RewriteLeadingReq(r) ==
  IF r.op = "*" THEN ReqDisplay(r)
  ELSE OpChars(r.op) \o RewriteLeading(Drop(ReqDisplay(r), Len(OpChars(r.op))))

\* C8: on a raw version string starting with "0.0." the call returns the
\* boolean of standard range matching after only the leading "0.0." of the
\* range's version and of the string is rewritten to "0.1.".
C8_RawQuirkMatches ==
  (MatchReturned /\ IsRaw /\ StartsWith(version.val.s, ZeroZero))
    => LET rq == ReqParse(RewriteLeadingReq(req.val))
           v == VersionParse(RewriteLeading(version.val.s))
       IN /\ matched.kind = "Return"
          /\ rq.kind = "Ok"
          /\ v.kind = "Ok"
          /\ matched.val = ReqMatches(rq.val, v.val)

\* The release version is a Parsed token that came from its wire string
\* and match_version has been called on it.
ParsedMatched ==
  /\ matched # NotCalled
  /\ vsrc # None
  /\ version.val.tag = "Version"

\* C15: on a Parsed token match_version returns the result of semantic
\* version range matching: >=1.0.0 accepts 1.0.0 and rejects 0.9.9, and
\* >=0.0.x against 0.0.y gives the same as >=0.1.x against 0.1.y, true
\* exactly when y >= x.
C15_ParsedMatching ==
  ParsedMatched =>
    /\ matched = Return(ReqMatches(req.val, version.val.v))
    /\ (req.val = AtLeast(1, 0, 0) /\ vsrc.val = <<"1", ".", "0", ".", "0">>)
         => matched = Return(TRUE)
    /\ (req.val = AtLeast(1, 0, 0) /\ vsrc.val = <<"0", ".", "9", ".", "9">>)
         => matched = Return(FALSE)
    /\ \A m \in {0, 1}, x, y \in 0..MaxPatch :
         (req.val = AtLeast(0, m, x)
            /\ vsrc.val = <<"0", ".">> \o Dec(m) \o <<".">> \o Dec(y))
           => /\ matched = Return(y >= x)
              /\ matched = match_version(
                             VersionDeserialize(<<"0", ".">> \o Dec(1 - m) \o <<".">> \o Dec(y)),
                             AtLeast(0, 1 - m, x))

\* match_version(>=0.0.5) has been called on the release of version "0.0.7".
C15_Witness ==
  /\ vsrc = Some(<<"0", ".", "0", ".", "7">>)
  /\ version.val.tag = "Version"
  /\ req = Some(AtLeast(0, 0, 5))
  /\ matched = Return(TRUE)

\* A numeric identifier of the semantic-version grammar: "0", or digits
\* that do not start with "0".
NumericIdentifier(p) ==
  /\ p # <<>>
  /\ \A k \in 1..Len(p) : IsDigit(p[k])
  /\ Len(p) > 1 => p[1] # "0"

\* s is <numeric identifier>.<numeric identifier>.<numeric identifier>
ConformsToGrammar(s) ==
  \E i, j \in 1..Len(s) :
    /\ i < j
    /\ s[i] = "." /\ s[j] = "."
    /\ NumericIdentifier(SubSeq(s, 1, i - 1))
    /\ NumericIdentifier(SubSeq(s, i + 1, j - 1))
    /\ NumericIdentifier(SubSeq(s, j + 1, Len(s)))

\* C16: deserializing a version string always gives a token: the Parsed
\* variant exactly when the string conforms to the semantic-version grammar,
\* otherwise the Raw variant with the text unmodified; serializing the token
\* gives back the original string.
C16_VersionRoundTrip ==
  vsrc # None =>
    /\ version # None
    /\ ConformsToGrammar(vsrc.val) =>
         /\ version.val.tag = "Version"
         /\ VersionDisplay(version.val.v) = vsrc.val
    /\ ~ConformsToGrammar(vsrc.val) => version.val = EString(vsrc.val)
    /\ vout # None => vout.val = vsrc.val

\* The raw version "0.0.x" has been deserialized and serialized again.
C16_Witness ==
  /\ vsrc = Some(<<"0", ".", "0", ".", "x">>)
  /\ version = Some(EString(<<"0", ".", "0", ".", "x">>))
  /\ vout = Some(<<"0", ".", "0", ".", "x">>)

----------------------------------------------------------------------------
(* Properties of ConfigModEntry::find_last_release (SpecSelect).           *)

\* Release i of the mod satisfies the entry's range.
Satisfies(r) == match_version(r.version, entry) = Return(TRUE)

Rejects(r) == match_version(r.version, entry) = Return(FALSE)

\* C9: when the mod has releases and none satisfies the range, the call
\* returns the absent result Ok(None).
C9_NoMatchIsAbsent ==
  (pc = "done" /\ svc.releases # <<>>
   /\ \A i \in 1..Len(svc.releases) : Rejects(svc.releases[i]))
    => result = Ok(None)

\* C10: with a version range given, a release returned satisfies the range
\* and has the greatest version among the releases that satisfy it.
C10_SelectedIsBestMatch ==
  (pc = "done" /\ entry # STAR /\ result.kind = "Ok" /\ result.val.some)
    => /\ Satisfies(result.val.val)
       /\ \A i \in 1..Len(svc.releases) :
            Satisfies(svc.releases[i])
              => VersionCmp(svc.releases[i].version.v, result.val.val.version.v) <= 0

\* The summary carried no latest_release, so the release was selected
\* from the full list.
Selected == pc = "done" /\ ~svc.latest_release.some

\* Release r has the greatest version of the mod's releases.
GreatestOfAll(r) ==
  \A i \in 1..Len(svc.releases) :
    VersionCmp(svc.releases[i].version.v, r.version.v) <= 0

\* C11: with the range "*" the call returns the summary's latest_release
\* when there is one and otherwise the release with the greatest version of
\* all releases; for a mod with a release the result is never absent.
C11_UnconstrainedIsLatest ==
  (pc = "done" /\ entry = STAR) =>
    /\ svc.latest_release.some => result = Ok(svc.latest_release)
    /\ (~svc.latest_release.some /\ svc.releases # <<>>)
         => /\ result.kind = "Ok"
            /\ result.val.some
            /\ result.val.val \in Elements(svc.releases)
            /\ GreatestOfAll(result.val.val)

\* The positions of the releases that satisfy the range.
Candidates == {i \in 1..Len(svc.releases) : Satisfies(svc.releases[i])}

\* Candidate i beats candidate j: greater version, or the same version
\* released later, or the same version and time and earlier in the list.
Beats(i, j) ==
  LET a == svc.releases[i]
      b == svc.releases[j]
      c == VersionCmp(a.version.v, b.version.v)
  IN \/ c > 0
     \/ c = 0 /\ a.released_at > b.released_at
     \/ c = 0 /\ a.released_at = b.released_at /\ i <= j

\* C12: of two candidates with the same version the one released later is
\* selected, and of two with the same version and release time the one that
\* comes first in the list.
C12_TieBreak ==
  (Selected /\ result.kind = "Ok" /\ result.val.some)
    => \E i \in Candidates :
         /\ svc.releases[i] = result.val.val
         /\ \A j \in Candidates : Beats(i, j)

----------------------------------------------------------------------------
(* FModRelease::validate: the SHA-1 digest of the downloaded bytes,        *)
(* rendered in hexadecimal, against the checksum the release declares.     *)

\* The byte values the downloaded files are made of ("a" and "b").
Bytes == {97, 98}

\* Sha1::new(), update(d), finalize(): the 20 bytes of the SHA-1 digest of
\* d, tabulated for the files of at most MaxData + 1 bytes over Bytes.
Sha1Digest(d) ==
  CASE d = <<>> ->
         <<218, 57, 163, 238, 94, 107, 75, 13, 50, 85, 191, 239, 149, 96, 24,
           144, 175, 216, 7, 9>>
    [] d = <<97>> ->
         <<134, 247, 228, 55, 250, 165, 167, 252, 225, 93, 29, 220, 185, 234,
           234, 234, 55, 118, 103, 184>>
    [] d = <<98>> ->
         <<233, 215, 31, 94, 231, 201, 45, 109, 201, 233, 47, 253, 173, 23,
           184, 189, 73, 65, 143, 152>>
    [] d = <<97, 97>> ->
         <<224, 201, 3, 88, 152, 221, 82, 252, 101, 196, 20, 84, 206, 201,
           196, 210, 97, 27, 251, 55>>
    [] d = <<97, 98>> ->
         <<218, 35, 97, 78, 2, 70, 154, 13, 124, 123, 209, 189, 171, 92, 156,
           71, 75, 25, 4, 220>>
    [] d = <<98, 97>> ->
         <<108, 5, 150, 184, 172, 96, 145, 145, 24, 26, 144, 81, 125, 81,
           192, 180, 134, 242, 55, 153>>
    [] d = <<98, 98>> ->
         <<154, 144, 15, 83, 137, 101, 164, 38, 153, 78, 30, 144, 96, 9, 32,
           175, 240, 180, 232, 210>>
    [] d = <<97, 97, 97>> ->
         <<126, 36, 13, 231, 79, 177, 237, 8, 250, 8, 211, 128, 99, 246, 166,
           169, 20, 98, 168, 21>>
    [] d = <<97, 97, 98>> ->
         <<64, 185, 4, 253, 136, 82, 41, 125, 174, 174, 180, 38, 177, 188,
           164, 111, 210, 69, 74, 163>>
    [] d = <<97, 98, 97>> ->
         <<77, 94, 204, 249, 55, 57, 198, 48, 90, 175, 137, 105, 166, 130,
           204, 87, 225, 253, 115, 149>>
    [] d = <<97, 98, 98>> ->
         <<198, 77, 63, 205, 226, 12, 92, 208, 49, 66, 23, 30, 90, 196, 122,
           135, 170, 60, 138, 206>>
    [] d = <<98, 97, 97>> ->
         <<76, 158, 52, 239, 66, 35, 151, 146, 92, 60, 54, 151, 62, 95, 227,
           95, 11, 171, 143, 173>>
    [] d = <<98, 97, 98>> ->
         <<135, 124, 135, 204, 156, 37, 24, 248, 247, 73, 100, 169, 69, 77,
           115, 248, 187, 134, 255, 214>>
    [] d = <<98, 98, 97>> ->
         <<255, 141, 56, 176, 65, 227, 137, 53, 48, 124, 38, 28, 221, 41, 35,
           233, 185, 229, 220, 0>>
    [] d = <<98, 98, 98>> ->
         <<92, 177, 56, 40, 77, 67, 26, 189, 106, 5, 58, 86, 98, 94, 192,
           136, 191, 184, 137, 18>>

HexDigits ==
  <<"0", "1", "2", "3", "4", "5", "6", "7", "8", "9", "a", "b", "c", "d", "e", "f">>

\* format!("{:x}", digest): two lowercase hexadecimal digits per byte.
RECURSIVE LowerHex(_)
LowerHex(bs) ==
  IF bs = <<>> THEN <<>>
  ELSE <<HexDigits[(Head(bs) \div 16) + 1], HexDigits[(Head(bs) % 16) + 1]>>
         \o LowerHex(Tail(bs))

UpperCase ==
  <<"A", "B", "C", "D", "E", "F", "G", "H", "I", "J", "K", "L", "M",
    "N", "O", "P", "Q", "R", "S", "T", "U", "V", "W", "X", "Y", "Z">>

LowerCase ==
  <<"a", "b", "c", "d", "e", "f", "g", "h", "i", "j", "k", "l", "m",
    "n", "o", "p", "q", "r", "s", "t", "u", "v", "w", "x", "y", "z">>

\* char::to_lowercase on an ASCII character.
LowerChar(c) ==
  IF \E i \in 1..26 : UpperCase[i] = c
  THEN LowerCase[CHOOSE i \in 1..26 : UpperCase[i] = c]
  ELSE c

\* str::to_lowercase
to_lowercase(s) == [i \in 1..Len(s) |-> LowerChar(s[i])]

\* validate with the hasher never fed the data.
validate_without_update(d, declared) ==
  to_lowercase(LowerHex(Sha1Digest(<<>>))) = declared

\* FModRelease::validate(&self, data) with self.sha1 = declared.
validate(d, declared) == to_lowercase(LowerHex(Sha1Digest(d))) = declared

----------------------------------------------------------------------------
(* FModRelease::download and validate as a state machine: the release      *)
(* declares a checksum, a file is downloaded for it and then validated.    *)

\* The files that can be downloaded.
Files == SeqsUpTo(Bytes, MaxData)

\* char::to_uppercase on an ASCII character.
UpperChar(c) ==
  IF \E i \in 1..26 : LowerCase[i] = c
  THEN UpperCase[CHOOSE i \in 1..26 : LowerCase[i] = c]
  ELSE c

\* The checksums a release can declare: the digest of a file in lowercase,
\* in uppercase, and with every second character in uppercase.
Checksums ==
  UNION {LET h == LowerHex(Sha1Digest(d)) IN
         {h,
          [i \in 1..Len(h) |-> UpperChar(h[i])],
          [i \in 1..Len(h) |-> IF i % 2 = 1 THEN UpperChar(h[i]) ELSE h[i]]}
         : d \in Files}

InitValidate ==
  /\ InitDepVars /\ InitPfxVars /\ InitMatchVars /\ InitSelVars
  /\ InitListVars /\ InitShortVars
  /\ data = None
  /\ sha1 \in Checksums
  /\ valid = NotCalled

\* release.download(ctx) returns the bytes d.
Download(d) ==
  /\ data = None
  /\ data' = Some(d)
  /\ UNCHANGED <<sha1, valid>>
  /\ UNCHANGED <<depVars, pfxVars, matchVars, selVars, listVars, shortVars>>

\* release.validate(&data)
Validate ==
  /\ data # None
  /\ valid = NotCalled
  /\ valid' = Return(validate(data.val, sha1))
  /\ UNCHANGED <<data, sha1>>
  /\ UNCHANGED <<depVars, pfxVars, matchVars, selVars, listVars, shortVars>>

NextValidate ==
  \/ \E d \in Files : Download(d)
  \/ Validate

SpecValidate == InitValidate /\ [][NextValidate]_vars

----------------------------------------------------------------------------
(* Properties of FModRelease::validate (SpecValidate).                     *)

\* The SHA-1 digest of the downloaded bytes in lowercase hexadecimal.
DigestOf(d) == LowerHex(Sha1Digest(d))

\* C13: validate compares case-insensitively: it returns true exactly when
\* the declared checksum equals the digest of the bytes up to letter case.
C13_CaseInsensitive ==
  valid.kind = "Return" =>
    valid.val = (to_lowercase(sha1) = DigestOf(data.val))

\* C14: a validate step returns true when the declared checksum is the
\* digest of the bytes, returns false when it is the digest of a file that
\* differs from the bytes and has another digest, and leaves the release and
\* the downloaded bytes as they were.
C14_Integrity ==
  [][(valid = NotCalled /\ valid' # NotCalled) =>
       /\ data' = data
       /\ sha1' = sha1
       /\ sha1 = DigestOf(data.val) => valid' = Return(TRUE)
       /\ \A d \in Files :
            (to_lowercase(sha1) = DigestOf(d) /\ d # data.val
               /\ Sha1Digest(d) # Sha1Digest(data.val))
              => valid' = Return(FALSE)]_vars

\* validate has returned true for bytes whose digest is the declared one.
C14_Witness ==
  /\ valid = Return(TRUE)
  /\ data = Some(<<97, 98>>)
  /\ sha1 = DigestOf(<<97, 98>>)

----------------------------------------------------------------------------
(* Context::get_mod_info, Context::get_mod_info_full and the two ModList   *)
(* calls built on them.  The stream combinator `then` awaits the request   *)
(* of one entry before it takes the next entry, so one request is under    *)
(* way at a time.                                                          *)

\* ModEntry { name, enabled }
ModEntry(n, e) == [name |-> n, enabled |-> e]

ModNames == {"fcpu", "flib", "helmod"}

ModLists == SeqsUpTo({ModEntry(n, e) : n \in ModNames, e \in BOOLEAN}, MaxMods)

\* The information the portal holds for the mod named n.
ModInfo(n) == [name |-> n]

\* Context::get_mod_info and get_mod_info_full on each outcome of the
\* request: the body decoded, the send failed, the decoding failed.
get_mod_info(n, outcome) ==
  IF outcome = "ok" THEN Ok(ModInfo(n)) ELSE Err("reqwest")

get_mod_info_full(n, outcome) ==
  CASE outcome = "ok" -> Ok(ModInfo(n))
    [] outcome = "send_failed" -> Panic
    [] outcome = "decode_failed" -> Err("reqwest")

\* collect with each item put in front of the ones collected before.
collect_in_front(acc, item) == <<item>> \o acc

\* StreamExt::collect into a Vec: the next item of the stream is pushed.
collect(acc, item) == Append(acc, item)

InitList ==
  /\ InitDepVars /\ InitPfxVars /\ InitMatchVars /\ InitSelVars
  /\ InitValVars /\ InitShortVars
  /\ mods \in ModLists
  /\ full \in BOOLEAN
  /\ idx = 0
  /\ net = "idle"
  /\ last = NotCalled
  /\ infos = <<>>
  /\ lres = NotCalled

\* The request for the next entry, with the network's outcome.
Fetch(outcome) ==
  LET n == mods[idx + 1].name IN
  IF full THEN get_mod_info_full(n, outcome) ELSE get_mod_info(n, outcome)

\* The request of the next entry succeeds: its item is collected.
FetchOk ==
  /\ lres = NotCalled
  /\ idx < Len(mods)
  /\ net' = "ok"
  /\ last' = Fetch("ok")
  /\ infos' = collect(infos, Fetch("ok").val)
  /\ idx' = idx + 1
  /\ UNCHANGED <<mods, full, lres>>
  /\ UNCHANGED <<depVars, pfxVars, matchVars, selVars, valVars, shortVars>>

\* The request of the next entry cannot be sent: get_mod_info returns the
\* error, which the stream unwraps; get_mod_info_full unwraps it itself.
FetchSendFailed ==
  /\ lres = NotCalled
  /\ idx < Len(mods)
  /\ net' = "send_failed"
  /\ last' = Fetch("send_failed")
  /\ lres' = Panic
  /\ UNCHANGED <<mods, full, idx, infos>>
  /\ UNCHANGED <<depVars, pfxVars, matchVars, selVars, valVars, shortVars>>

\* The response of the next entry cannot be decoded: the error is returned
\* and the stream unwraps it.
FetchDecodeFailed ==
  /\ lres = NotCalled
  /\ idx < Len(mods)
  /\ net' = "decode_failed"
  /\ last' = Fetch("decode_failed")
  /\ lres' = Panic
  /\ UNCHANGED <<mods, full, idx, infos>>
  /\ UNCHANGED <<depVars, pfxVars, matchVars, selVars, valVars, shortVars>>

\* The stream is exhausted: the collected Vec is returned.
Collected ==
  /\ lres = NotCalled
  /\ idx = Len(mods)
  /\ lres' = Return(infos)
  /\ UNCHANGED <<mods, full, idx, net, last, infos>>
  /\ UNCHANGED <<depVars, pfxVars, matchVars, selVars, valVars, shortVars>>

NextList == FetchOk \/ FetchSendFailed \/ FetchDecodeFailed \/ Collected

SpecList == InitList /\ [][NextList]_vars

----------------------------------------------------------------------------
(* Properties of the mod information requests (SpecList).                  *)

\* C17: get_mod_info_full, like get_mod_info, reports a request that could
\* not be sent or decoded as Err(reqwest::Error); it never aborts.
C17_FailureIsErr ==
  net \in {"send_failed", "decode_failed"} => last = Err("reqwest")

\* C18: get_mods_info returns one summary per entry of the list, enabled or
\* not, the i-th being the summary of the i-th entry's name.
C18_OnePerEntryInOrder ==
  (lres.kind = "Return" /\ ~full) =>
    /\ Len(lres.val) = Len(mods)
    /\ \A i \in 1..Len(mods) : lres.val[i] = ModInfo(mods[i].name)

\* get_mods_info has returned for a list of three mods, the first disabled.
C18_Witness ==
  /\ ~full
  /\ mods = <<ModEntry("helmod", FALSE), ModEntry("fcpu", TRUE), ModEntry("flib", TRUE)>>
  /\ lres.kind = "Return"

----------------------------------------------------------------------------
(* FMod::short as a state machine: a mod, held in full or as a summary,    *)
(* is converted to its summary.                                            *)

\* FModFull, with the fields short reads.
FModFull(n, o, rs) == [name |-> n, owner |-> o, releases |-> rs]

\* FModShort, with the same fields and latest_release.
FModShort(n, o, l, rs) ==
  [name |-> n, owner |-> o, latest_release |-> l, releases |-> rs]

\* FMod::Full(m) and FMod::Short(m)
Full(m) == [tag |-> "Full", m |-> m]

Short(m) == [tag |-> "Short", m |-> m]

\* Vec::first().cloned()
first(q) == IF q = <<>> THEN None ELSE Some(q[1])

\* FMod::short(&self)
short(f) ==
  IF f.tag = "Short" THEN f.m
  ELSE FModShort(f.m.name, f.m.owner, first(f.m.releases), f.m.releases)

Owners == {"raiguard", "Xorimuth"}

FMods ==
  {Full(FModFull(n, o, rs)) :
     n \in ModNames, o \in Owners, rs \in SeqsUpTo(ReleasePool, MaxReleases)}
    \cup {Short(FModShort(n, o, s.latest_release, s.releases)) :
            n \in {"flib"}, o \in {"raiguard"}, s \in Mods}

InitShort ==
  /\ InitDepVars /\ InitPfxVars /\ InitMatchVars /\ InitSelVars
  /\ InitValVars /\ InitListVars
  /\ fmod \in FMods
  /\ shortened = NotCalled

\* fmod.short()
ShortCall ==
  /\ shortened = NotCalled
  /\ shortened' = Return(short(fmod))
  /\ UNCHANGED fmod
  /\ UNCHANGED <<depVars, pfxVars, matchVars, selVars, valVars, listVars>>

NextShort == ShortCall

SpecShort == InitShort /\ [][NextShort]_vars

----------------------------------------------------------------------------
(* Properties of FMod::short (SpecShort).                                  *)

\* Every release of the list carries a semantic version.
AllParsed(rs) == \A i \in 1..Len(rs) : rs[i].version.tag = "Version"

\* Release r is one of rs and no release of rs has a greater version.
Newest(r, rs) ==
  /\ r \in Elements(rs)
  /\ AllParsed(rs) =>
       \A i \in 1..Len(rs) : VersionCmp(rs[i].version.v, r.version.v) <= 0

\* C19: short of a full mod keeps name, owner and the release list, and
\* sets latest_release to the release with the greatest version, or to none
\* when the mod has no release, whatever the order of the list.
C19_ShortKeepsNewest ==
  (shortened.kind = "Return" /\ fmod.tag = "Full") =>
    LET s == shortened.val
        f == fmod.m
    IN /\ s.name = f.name
       /\ s.owner = f.owner
       /\ s.releases = f.releases
       /\ f.releases = <<>> => s.latest_release = None
       /\ f.releases # <<>> =>
            /\ s.latest_release # None
            /\ Newest(s.latest_release.val, f.releases)

====
